---- MODULE Spec2Model ----
(***************************************************************************)
(* Model of the value sanitizer simulate_swift_sanitize of                 *)
(* demonstrate_yaml_fix.py and of the detector simulate_yaml_issues of     *)
(* test_deployment_yaml.py.                                                *)
(*                                                                         *)
(* A Python object is a record with a field kind (the name of its runtime  *)
(* type) and one payload field.  Text is a sequence of one-character       *)
(* strings, so that formatting and encoding are computed character by      *)
(* character.                                                              *)
(***************************************************************************)
EXTENDS Integers, Sequences, FiniteSets, TLC

\* ------------------------------------------------------------------ bounds
\* Largest number of nodes of an input tree over all the scalar kinds, and of
\* an input tree over the core scalars.
MaxNodes == 3
MaxCoreNodes == 4
\* Longest byte string given to the sanitizer as a single scalar.
MaxBlobLen == 3
\* Objects the loader allocates for the input graph of the heap model, and
\* references it adds to objects that exist already (sharing, cycles).
MaxObjs == 3
MaxLinks == 1
\* The interpreter's recursion limit (sys.getrecursionlimit()), scaled to the
\* model: the deepest stack of simulate_swift_sanitize frames.
RecursionLimit == 3

\* ------------------------------------------------------------------- text
DigitChars == <<"0", "1", "2", "3", "4", "5", "6", "7", "8", "9">>

IsDigit(c) == \E i \in 1..10 : DigitChars[i] = c

\* "%0<w>d" % n for n >= 0: at least w digits, more when n needs them.
RECURSIVE ZeroPad(_, _)
ZeroPad(n, w) ==
  IF w <= 1 /\ n < 10 THEN <<DigitChars[n + 1]>>
  ELSE ZeroPad(n \div 10, w - 1) \o <<DigitChars[(n % 10) + 1]>>

\* ------------------------------------------------------ datetime.isoformat
\* datetime.isoformat(): date, "T", time, the microseconds when they are
\* not zero, and the UTC offset when the datetime is aware (tz = <<minutes>>;
\* tz = <<>> is a naive datetime, tzinfo None).
UtcOffsetText(tz) ==
  IF tz = <<>> THEN <<>>
  ELSE LET off == tz[1]
           mag == IF off < 0 THEN 0 - off ELSE off
       IN  <<IF off < 0 THEN "-" ELSE "+">>
             \o ZeroPad(mag \div 60, 2) \o <<":">> \o ZeroPad(mag % 60, 2)

isoformat(dt) ==
  ZeroPad(dt.year, 4) \o <<"-">> \o ZeroPad(dt.month, 2) \o <<"-">>
    \o ZeroPad(dt.day, 2) \o <<"T">>
    \o ZeroPad(dt.hour, 2) \o <<":">> \o ZeroPad(dt.minute, 2) \o <<":">>
    \o ZeroPad(dt.second, 2)
    \o (IF dt.microsecond # 0 THEN <<".">> \o ZeroPad(dt.microsecond, 6) ELSE <<>>)
    \o UtcOffsetText(dt.tz)

\* ------------------------------------------------------- base64.b64encode
B64Alphabet ==
  << "A", "B", "C", "D", "E", "F", "G", "H", "I", "J", "K", "L", "M",
     "N", "O", "P", "Q", "R", "S", "T", "U", "V", "W", "X", "Y", "Z",
     "a", "b", "c", "d", "e", "f", "g", "h", "i", "j", "k", "l", "m",
     "n", "o", "p", "q", "r", "s", "t", "u", "v", "w", "x", "y", "z",
     "0", "1", "2", "3", "4", "5", "6", "7", "8", "9", "+", "/" >>

B64Char(n) == B64Alphabet[n + 1]

\* One group without its "=" padding.
B64GroupUnpadded(g) ==
  IF Len(g) = 1 THEN
    <<B64Char(g[1] \div 4), B64Char((g[1] % 4) * 16)>>
  ELSE IF Len(g) = 2 THEN
    <<B64Char(g[1] \div 4), B64Char((g[1] % 4) * 16 + g[2] \div 16),
      B64Char((g[2] % 16) * 4)>>
  ELSE
    <<B64Char(g[1] \div 4), B64Char((g[1] % 4) * 16 + g[2] \div 16),
      B64Char((g[2] % 16) * 4 + g[3] \div 64), B64Char(g[3] % 64)>>

\* The four characters of one group of one, two or three bytes.
B64Group(g) ==
  IF Len(g) = 1 THEN
    <<B64Char(g[1] \div 4), B64Char((g[1] % 4) * 16), "=", "=">>
  ELSE IF Len(g) = 2 THEN
    <<B64Char(g[1] \div 4), B64Char((g[1] % 4) * 16 + g[2] \div 16),
      B64Char((g[2] % 16) * 4), "=">>
  ELSE
    <<B64Char(g[1] \div 4), B64Char((g[1] % 4) * 16 + g[2] \div 16),
      B64Char((g[2] % 16) * 4 + g[3] \div 64), B64Char(g[3] % 64)>>

RECURSIVE b64encode(_)
b64encode(bs) ==
  IF Len(bs) = 0 THEN <<>>
  ELSE IF Len(bs) <= 3 THEN B64Group(bs)
  ELSE B64Group(SubSeq(bs, 1, 3)) \o b64encode(SubSeq(bs, 4, Len(bs)))

\* ------------------------------------------------------------- str(Path)
\* str() of a pure path: the parts joined by "/", the root "/" not doubled.
RECURSIVE JoinParts(_)
JoinParts(parts) ==
  IF Len(parts) = 0 THEN <<>>
  ELSE IF Len(parts) = 1 THEN parts[1]
  ELSE parts[1] \o <<"/">> \o JoinParts(Tail(parts))

StrOfPath(parts) ==
  IF Len(parts) = 0 THEN <<".">>
  ELSE IF parts[1] = <<"/">> THEN <<"/">> \o JoinParts(Tail(parts))
  ELSE JoinParts(parts)

\* ---------------------------------------------------------------- objects
PyStr(chars) == [kind |-> "str", text |-> chars]
PyInt(n) == [kind |-> "int", n |-> n]
PyBool(b) == [kind |-> "bool", b |-> b]
PyNone == [kind |-> "NoneType"]
PyBytes(bs) == [kind |-> "bytes", octets |-> bs]
PyPath(parts) == [kind |-> "PosixPath", parts |-> parts]
PyDatetime(y, mo, d, h, mi, s, us, tz) ==
  [kind |-> "datetime", year |-> y, month |-> mo, day |-> d, hour |-> h,
   minute |-> mi, second |-> s, microsecond |-> us, tz |-> tz]
\* plistlib.UID: a scalar a property list can hold that the sanitizer has no
\* branch for.
PyUID(n) == [kind |-> "UID", data |-> n]
\* A bridged Foundation object (PyObjC), neither datetime, bytes nor Path.
PyNSURL(chars) == [kind |-> "NSURL", url |-> chars]
PyDict(entries) == [kind |-> "dict", entries |-> entries]
PyList(elems) == [kind |-> "list", elems |-> elems]

\* The child objects of a container, in insertion order.
Children(obj) ==
  IF obj.kind = "dict" THEN [i \in 1..Len(obj.entries) |-> obj.entries[i].val]
  ELSE IF obj.kind = "list" THEN obj.elems
  ELSE <<>>

\* ------------------------------------------------- simulate_swift_sanitize
\* Faulty sanitizers, each differing from simulate_swift_sanitize in one
\* branch; the properties below hold of simulate_swift_sanitize and of none
\* of these.
\* The list branch returns the list without sanitizing its elements.
RECURSIVE sanitize_list_as_is(_)
sanitize_list_as_is(obj) ==
  IF obj.kind = "datetime" THEN PyStr(isoformat(obj) \o <<"Z">>)
  ELSE IF obj.kind = "bytes" THEN PyStr(b64encode(obj.octets))
  ELSE IF obj.kind = "PosixPath" THEN PyStr(StrOfPath(obj.parts))
  ELSE IF obj.kind = "dict" THEN
    PyDict([i \in 1..Len(obj.entries) |->
              [key |-> obj.entries[i].key,
               val |-> sanitize_list_as_is(obj.entries[i].val)]])
  ELSE obj

\* The list comprehension filters with "if item": falsy elements (None, empty
\* containers) are dropped.
Truthy(obj) ==
  /\ obj.kind # "NoneType"
  /\ obj.kind = "dict" => obj.entries # <<>>
  /\ obj.kind = "list" => obj.elems # <<>>

RECURSIVE sanitize_drop_falsy(_)
sanitize_drop_falsy(obj) ==
  IF obj.kind = "datetime" THEN PyStr(isoformat(obj) \o <<"Z">>)
  ELSE IF obj.kind = "bytes" THEN PyStr(b64encode(obj.octets))
  ELSE IF obj.kind = "PosixPath" THEN PyStr(StrOfPath(obj.parts))
  ELSE IF obj.kind = "dict" THEN
    PyDict(SelectSeq([i \in 1..Len(obj.entries) |->
                        [key |-> obj.entries[i].key,
                         val |-> sanitize_drop_falsy(obj.entries[i].val)]],
                     LAMBDA e : Truthy(e.val)))
  ELSE IF obj.kind = "list" THEN
    PyList(SelectSeq([i \in 1..Len(obj.elems) |-> sanitize_drop_falsy(obj.elems[i])],
                     Truthy))
  ELSE obj

\* The last branch returns str(obj) for whatever is not already text.
RECURSIVE sanitize_str_fallback(_)
sanitize_str_fallback(obj) ==
  IF obj.kind = "datetime" THEN PyStr(isoformat(obj) \o <<"Z">>)
  ELSE IF obj.kind = "bytes" THEN PyStr(b64encode(obj.octets))
  ELSE IF obj.kind = "PosixPath" THEN PyStr(StrOfPath(obj.parts))
  ELSE IF obj.kind = "dict" THEN
    PyDict([i \in 1..Len(obj.entries) |->
              [key |-> obj.entries[i].key,
               val |-> sanitize_str_fallback(obj.entries[i].val)]])
  ELSE IF obj.kind = "list" THEN
    PyList([i \in 1..Len(obj.elems) |-> sanitize_str_fallback(obj.elems[i])])
  ELSE IF obj.kind = "str" THEN obj
  ELSE IF obj.kind = "int" THEN PyStr(ZeroPad(obj.n, 1))
  ELSE IF obj.kind = "bool" THEN
    PyStr(IF obj.b THEN <<"T", "r", "u", "e">> ELSE <<"F", "a", "l", "s", "e">>)
  ELSE IF obj.kind = "NoneType" THEN PyStr(<<"N", "o", "n", "e">>)
  ELSE IF obj.kind = "UID" THEN
    PyStr(<<"U", "I", "D", "(">> \o ZeroPad(obj.data, 1) \o <<")">>)
  ELSE PyStr(obj.url)

\* The bytes branch is missing.
RECURSIVE sanitize_without_bytes(_)
sanitize_without_bytes(obj) ==
  IF obj.kind = "datetime" THEN PyStr(isoformat(obj) \o <<"Z">>)
  ELSE IF obj.kind = "PosixPath" THEN PyStr(StrOfPath(obj.parts))
  ELSE IF obj.kind = "dict" THEN
    PyDict([i \in 1..Len(obj.entries) |->
              [key |-> obj.entries[i].key,
               val |-> sanitize_without_bytes(obj.entries[i].val)]])
  ELSE IF obj.kind = "list" THEN
    PyList([i \in 1..Len(obj.elems) |-> sanitize_without_bytes(obj.elems[i])])
  ELSE obj

\* if isinstance(obj, datetime) ... else: return obj
RECURSIVE simulate_swift_sanitize(_)
simulate_swift_sanitize(obj) ==
  IF obj.kind = "datetime" THEN PyStr(isoformat(obj) \o <<"Z">>)
  ELSE IF obj.kind = "bytes" THEN PyStr(b64encode(obj.octets))
  ELSE IF obj.kind = "PosixPath" THEN PyStr(StrOfPath(obj.parts))
  ELSE IF obj.kind = "dict" THEN
    PyDict([i \in 1..Len(obj.entries) |->
            [key |-> obj.entries[i].key,
             val |-> simulate_swift_sanitize(obj.entries[i].val)]])
  ELSE IF obj.kind = "list" THEN
    PyList([i \in 1..Len(obj.elems) |-> simulate_swift_sanitize(obj.elems[i])])
  ELSE obj

\* --------------------------------------------------- simulate_yaml_issues
\* type(obj).__name__, as text.
TypeName(obj) ==
  CASE obj.kind = "str" -> <<"s", "t", "r">>
    [] obj.kind = "int" -> <<"i", "n", "t">>
    [] obj.kind = "bool" -> <<"b", "o", "o", "l">>
    [] obj.kind = "NoneType" -> <<"N", "o", "n", "e", "T", "y", "p", "e">>
    [] obj.kind = "datetime" -> <<"d", "a", "t", "e", "t", "i", "m", "e">>
    [] obj.kind = "bytes" -> <<"b", "y", "t", "e", "s">>
    [] obj.kind = "PosixPath" -> <<"P", "o", "s", "i", "x", "P", "a", "t", "h">>
    [] obj.kind = "UID" -> <<"U", "I", "D">>
    [] obj.kind = "NSURL" -> <<"N", "S", "U", "R", "L">>
    [] obj.kind = "dict" -> <<"d", "i", "c", "t">>
    [] obj.kind = "list" -> <<"l", "i", "s", "t">>

\* sub in s, for text.
Contains(sub, s) ==
  \E i \in 1..(Len(s) - Len(sub) + 1) : SubSeq(s, i, i + Len(sub) - 1) = sub

ListedTypeNames ==
  { <<"N", "S", "D", "a", "t", "e">>, <<"d", "a", "t", "e", "t", "i", "m", "e">>,
    <<"N", "S", "D", "a", "t", "a">>, <<"b", "y", "t", "e", "s">> }

\* One reported issue: the path, the type name and the object whose repr the
\* message quotes.
Issue(path, obj) == [path |-> path, obj_type |-> TypeName(obj), obj |-> obj]

RECURSIVE check_object(_, _), check_entries(_, _, _), check_elems(_, _, _)
check_object(obj, path) ==
  IF obj.kind = "dict" THEN check_entries(obj.entries, path, 1)
  ELSE IF obj.kind = "list" THEN check_elems(obj.elems, path, 1)
  ELSE IF TypeName(obj) \in ListedTypeNames THEN <<Issue(path, obj)>>
  ELSE IF Contains(<<"C", "F">>, TypeName(obj)) \/ Contains(<<"N", "S">>, TypeName(obj))
    THEN <<Issue(path, obj)>>
  ELSE <<>>

\* for key, value in obj.items(): check_object(value, path.key or key)
check_entries(entries, path, i) ==
  IF i > Len(entries) THEN <<>>
  ELSE check_object(entries[i].val,
                    IF path # <<>> THEN path \o <<".">> \o entries[i].key
                    ELSE entries[i].key)
         \o check_entries(entries, path, i + 1)

\* for i, value in enumerate(obj): check_object(value, path[i])
check_elems(elems, path, i) ==
  IF i > Len(elems) THEN <<>>
  ELSE check_object(elems[i], path \o <<"[">> \o ZeroPad(i - 1, 1) \o <<"]">>)
         \o check_elems(elems, path, i + 1)

simulate_yaml_issues(data) == check_object(data, <<>>)

\* ----------------------------------------------------------------- inputs
\* The kinds of the specification's Value: safe scalars, the three kinds the
\* sanitizer converts, and the two containers.
SafeScalarKinds == {"str", "int", "bool", "NoneType"}
NonSafeKinds == {"datetime", "bytes", "PosixPath"}
ContainerKinds == {"dict", "list"}

Keys == { <<"a">>, <<"t">> }

\* 2024-01-15T10:30:00 as a naive datetime, as an aware one at +00:00, and
\* the same point in time at +02:00.
NaiveInstant == PyDatetime(2024, 1, 15, 10, 30, 0, 0, <<>>)
UtcInstant == PyDatetime(2024, 1, 15, 10, 30, 0, 0, <<0>>)
OffsetInstant == PyDatetime(2024, 1, 15, 12, 30, 0, 0, <<120>>)

\* The scalars the input trees are built from.
TreeLeaves ==
  { PyStr(<<"W">>), PyInt(3), PyBool(TRUE), PyNone,
    NaiveInstant, UtcInstant, OffsetInstant,
    PyBytes(<<97, 98>>), PyPath(<< <<"/">>, <<"p">>, <<"k">> >>),
    PyUID(7), PyNSURL(<<"f">>) }

\* Sequences of n distinct keys: the key order of a dict with n entries.
KeySeqs(n) ==
  { ks \in [1..n -> Keys] : \A i, j \in 1..n : i # j => ks[i] # ks[j] }

\* The scalars the larger input trees are built from: one safe scalar, one
\* datetime, one bytes and one scalar of a kind the sanitizer does not know.
CoreLeaves == { PyInt(3), OffsetInstant, PyBytes(<<97, 98>>), PyUID(7) }

\* TreesOfSize(leaves, n): the objects with exactly n nodes whose scalars are
\* in leaves; ForestsOfSize(leaves, n): the sequences of such objects with n
\* nodes in all.
RECURSIVE TreesOfSize(_, _), ForestsOfSize(_, _)
TreesOfSize(leaves, n) ==
  IF n = 1 THEN leaves \cup {PyDict(<<>>), PyList(<<>>)}
  ELSE { PyList(f) : f \in ForestsOfSize(leaves, n - 1) }
       \cup UNION { { PyDict([i \in 1..Len(f) |-> [key |-> ks[i], val |-> f[i]]]) :
                        ks \in KeySeqs(Len(f)) } : f \in ForestsOfSize(leaves, n - 1) }

ForestsOfSize(leaves, n) ==
  IF n = 0 THEN {<<>>}
  ELSE UNION { { <<t>> \o f : t \in TreesOfSize(leaves, k),
                              f \in ForestsOfSize(leaves, n - k) } : k \in 1..n }

Trees ==
  UNION { TreesOfSize(TreeLeaves, n) : n \in 1..MaxNodes }
    \cup UNION { TreesOfSize(CoreLeaves, n) : n \in 1..MaxCoreNodes }

\* Byte strings and datetimes given to the sanitizer as single scalars.
ByteValues == {0, 1, 2, 97, 98, 255}
Blobs == UNION { [1..n -> ByteValues] : n \in 0..MaxBlobLen }

Instants ==
  { PyDatetime(y, mo, d, h, mi, s, us, tz) :
      y \in {800, 2024}, mo \in {1, 12}, d \in {5, 15}, h \in {0, 10, 12},
      mi \in {30}, s \in {0, 59}, us \in {0, 500, 250000},
      tz \in {<<>>, <<0>>, <<120>>, <<-330>>} }

Inputs == Trees \cup { PyBytes(b) : b \in Blobs } \cup Instants

\* ------------------------------------------------------------------- state
VARIABLES
  data,            \* the object given to the sanitizer, as a tree
  sanitized_data,  \* what simulate_swift_sanitize returned
  issues,          \* what simulate_yaml_issues last returned
  pc,              \* "loaded", "detected", "sanitized", "checked" for the run
                   \* on a tree; "load", "run", "done", "error", "mutated" on
                   \* the heap
  heap,            \* the objects by address: heap[a] is the object at a
  root,            \* the address of the object given to the sanitizer
  n_input,         \* the number of objects when the sanitizer was called
  stack,           \* the frames of simulate_swift_sanitize, innermost last
  result,          \* the address the outermost call returned, 0 before
  links,           \* references the loader added to existing objects
  filling,         \* the container the loader last added a new object to
  mutated          \* the container mutated after the call, 0 before

treeVars == <<data, sanitized_data, issues>>
heapVars == <<heap, root, n_input, stack, result, links, filling, mutated>>
vars == <<data, sanitized_data, issues, pc, heap, root, n_input, stack, result,
          links, filling, mutated>>

NotReturned == [kind |-> "unset"]

NoHeap ==
  /\ heap = <<>>
  /\ root = 0
  /\ n_input = 0
  /\ stack = <<>>
  /\ result = 0
  /\ links = 0
  /\ filling = 0
  /\ mutated = 0

Init ==
  /\ data \in Inputs
  /\ sanitized_data = NotReturned
  /\ issues = <<>>
  /\ pc = "loaded"
  /\ NoHeap

\* issues = simulate_yaml_issues(data, filepath.name) on the loaded data.
Detect ==
  /\ pc = "loaded"
  /\ issues' = simulate_yaml_issues(data)
  /\ pc' = "detected"
  /\ UNCHANGED <<data, sanitized_data, heapVars>>

\* sanitized_data = simulate_swift_sanitize(problematic_data)
Sanitize ==
  /\ pc = "detected"
  /\ sanitized_data' = simulate_swift_sanitize(data)
  /\ pc' = "sanitized"
  /\ UNCHANGED <<data, issues, heapVars>>

\* The detector run on the sanitizer's result.
DetectSanitized ==
  /\ pc = "sanitized"
  /\ issues' = simulate_yaml_issues(sanitized_data)
  /\ pc' = "checked"
  /\ UNCHANGED <<data, sanitized_data, heapVars>>

Next == Detect \/ Sanitize \/ DetectSanitized

Spec == Init /\ [][Next]_vars

\* ------------------------------------------------- positions in a tree
\* The positions of an object's nodes: the sequence of child indices from
\* the root.
RECURSIVE Paths(_)
Paths(obj) ==
  {<<>>} \cup UNION { { <<i>> \o q : q \in Paths(Children(obj)[i]) } :
                      i \in 1..Len(Children(obj)) }

RECURSIVE At(_, _)
At(obj, p) == IF p = <<>> THEN obj ELSE At(Children(obj)[Head(p)], Tail(p))

KindsOf(obj) == { At(obj, p).kind : p \in Paths(obj) }

IsValue(obj) == KindsOf(obj) \subseteq SafeScalarKinds \cup NonSafeKinds \cup ContainerKinds
IsSafeValue(obj) == KindsOf(obj) \subseteq SafeScalarKinds \cup ContainerKinds

Returned == pc \in {"sanitized", "checked"}

\* The keys of a dict, in insertion order.
KeysOf(obj) == [i \in 1..Len(obj.entries) |-> obj.entries[i].key]

\* C1 (type closure): when the input is a Value, no node of the sanitizer's
\* result, at any depth, is a datetime, bytes or Path; every node is a
\* container or text, number, boolean or null.
C1_TypeClosure ==
  (Returned /\ IsValue(data)) =>
    \A p \in Paths(sanitized_data) :
      /\ At(sanitized_data, p).kind \notin NonSafeKinds
      /\ At(sanitized_data, p).kind \in SafeScalarKinds \cup ContainerKinds

\* A Value with a non-safe scalar two containers deep has been sanitized.
C1_Witness ==
  /\ pc = "sanitized"
  /\ IsValue(data)
  /\ \E p \in Paths(data) : Len(p) = 2 /\ At(data, p).kind \in NonSafeKinds

\* C2 (structure preservation): the result has the positions of the input; a
\* dict stays a dict with the same keys in the same order, a list stays a
\* list of the same length, a scalar stays a scalar.
C2_StructurePreserved ==
  Returned =>
    /\ Paths(sanitized_data) = Paths(data)
    /\ \A p \in Paths(data) :
         LET a == At(data, p)
             b == At(sanitized_data, p)
         IN  /\ a.kind = "dict" => (b.kind = "dict" /\ KeysOf(b) = KeysOf(a))
             /\ a.kind = "list" => (b.kind = "list" /\ Len(b.elems) = Len(a.elems))
             /\ a.kind \notin ContainerKinds => b.kind \notin ContainerKinds

\* A dict whose keys are not in alphabetical order, holding an empty list and
\* a scalar that the sanitizer converts.
C2_Witness ==
  /\ pc = "sanitized"
  /\ data.kind = "dict"
  /\ KeysOf(data) = << <<"t">>, <<"a">> >>
  /\ \E i \in 1..2 : data.entries[i].val = PyList(<<>>)
  /\ sanitized_data # data

\* C5 (idempotence): a SafeValue is returned equal to itself, and sanitizing
\* the result again changes nothing.
C5_Idempotent ==
  Returned =>
    /\ IsSafeValue(data) => sanitized_data = data
    /\ simulate_swift_sanitize(sanitized_data) = sanitized_data

\* The specification's example {"name": "Widget", "count": 3}: a dict of two
\* safe scalars.
C5_Witness ==
  /\ pc = "sanitized"
  /\ data = PyDict(<< [key |-> <<"a">>, val |-> PyStr(<<"W">>)],
                      [key |-> <<"t">>, val |-> PyInt(3)] >>)

DaysFromCivil(y, m, d) ==
  LET yy == IF m <= 2 THEN y - 1 ELSE y
      era == yy \div 400
      yoe == yy - era * 400
      mp == IF m > 2 THEN m - 3 ELSE m + 9
      doy == (153 * mp + 2) \div 5 + d - 1
      doe == yoe * 365 + yoe \div 4 - yoe \div 100 + doy
  IN  era * 146097 + doe - 719468

\* The point in time a datetime denotes: minutes since the epoch in UTC, then
\* seconds and microseconds.  A naive datetime has no offset to subtract.
PointInTime(dt) ==
  << (DaysFromCivil(dt.year, dt.month, dt.day) * 24 + dt.hour) * 60 + dt.minute
       - (IF dt.tz = <<>> THEN 0 ELSE dt.tz[1]),
     dt.second, dt.microsecond >>

\* Two datetimes denote the same point in time.  A naive datetime is only
\* compared with a naive one: which point it denotes against an aware one
\* depends on a time zone the object does not carry.
SamePointInTime(a, b) ==
  /\ (a.tz = <<>>) = (b.tz = <<>>)
  /\ PointInTime(a) = PointInTime(b)

\* Text of the form YYYY-MM-DDTHH:MM:SSZ.
IsSecondPrecisionUtcText(t) ==
  /\ Len(t) = 20
  /\ \A i \in {1, 2, 3, 4, 6, 7, 9, 10, 12, 13, 15, 16, 18, 19} : IsDigit(t[i])
  /\ t[5] = "-" /\ t[8] = "-" /\ t[11] = "T"
  /\ t[14] = ":" /\ t[17] = ":" /\ t[20] = "Z"

\* C3 (instant formatting): every datetime of the input, with or without
\* microseconds or a UTC offset, is text of the form YYYY-MM-DDTHH:MM:SSZ in
\* the result.
C3_InstantFormat ==
  Returned =>
    \A p \in Paths(data) :
      At(data, p).kind = "datetime" =>
        /\ At(sanitized_data, p).kind = "str"
        /\ IsSecondPrecisionUtcText(At(sanitized_data, p).text)

\* C4 (deterministic formatting): two datetimes of the input that denote the
\* same point in time are the same text in the result.
C4_SameInstantSameText ==
  Returned =>
    \A p, q \in Paths(data) :
      ( /\ At(data, p).kind = "datetime"
        /\ At(data, q).kind = "datetime"
        /\ SamePointInTime(At(data, p), At(data, q)) )
      => At(sanitized_data, p) = At(sanitized_data, q)

\* ------------------------------------------------------------- base64
B64Index(c) == CHOOSE n \in 0..63 : B64Alphabet[n + 1] = c

\* The bytes of one group of four characters (RFC 4648, section 4).
B64DecodeGroup(g) ==
  LET a == B64Index(g[1])
      b == B64Index(g[2])
  IN  IF g[3] = "=" THEN << a * 4 + b \div 16 >>
      ELSE LET c == B64Index(g[3])
           IN  IF g[4] = "=" THEN << a * 4 + b \div 16, (b % 16) * 16 + c \div 4 >>
               ELSE << a * 4 + b \div 16, (b % 16) * 16 + c \div 4,
                       (c % 4) * 64 + B64Index(g[4]) >>

RECURSIVE B64Decode(_)
B64Decode(t) ==
  IF Len(t) = 0 THEN <<>>
  ELSE B64DecodeGroup(SubSeq(t, 1, 4)) \o B64Decode(SubSeq(t, 5, Len(t)))

\* Padded base64 text of n bytes: 4 characters for every 3 bytes begun, all of
\* the alphabet but the one or two "=" that end a last group of 2 or 1 bytes.
IsPaddedB64(t, n) ==
  LET pad == IF n % 3 = 0 THEN 0 ELSE 3 - (n % 3)
  IN  /\ Len(t) = 4 * ((n + 2) \div 3)
      /\ \A i \in 1..Len(t) :
           IF i > Len(t) - pad THEN t[i] = "="
           ELSE \E k \in 1..64 : B64Alphabet[k] = t[i]

\* C6 (byte-blob round trip): every bytes of the input is, in the result, its
\* padded base64 text on one line, and decoding that text gives the bytes
\* back; 00 01 02 gives AAEC and "ab" gives YWI=.
C6_BlobRoundTrip ==
  Returned =>
    /\ \A p \in Paths(data) :
         At(data, p).kind = "bytes" =>
           /\ At(sanitized_data, p).kind = "str"
           /\ IsPaddedB64(At(sanitized_data, p).text, Len(At(data, p).octets))
           /\ B64Decode(At(sanitized_data, p).text) = At(data, p).octets
    /\ data = PyBytes(<<0, 1, 2>>) => sanitized_data = PyStr(<<"A", "A", "E", "C">>)
    /\ data = PyBytes(<<97, 98>>) => sanitized_data = PyStr(<<"Y", "W", "I", "=">>)

\* A blob whose length is not a multiple of 3 and whose bytes have the high
\* bit set has been encoded.
C6_Witness ==
  /\ pc = "sanitized"
  /\ data.kind = "bytes"
  /\ Len(data.octets) = 2
  /\ data.octets[1] = 255

\* ------------------------------------------------------------ detector
\* The path text the detector gives the node at position p.
RECURSIVE PathText(_, _, _)
PathText(obj, p, prefix) ==
  IF p = <<>> THEN prefix
  ELSE IF obj.kind = "dict" THEN
    PathText(obj.entries[Head(p)].val, Tail(p),
             IF prefix # <<>> THEN prefix \o <<".">> \o obj.entries[Head(p)].key
             ELSE obj.entries[Head(p)].key)
  ELSE
    PathText(obj.elems[Head(p)], Tail(p),
             prefix \o <<"[">> \o ZeroPad(Head(p) - 1, 1) \o <<"]">>)

\* p before q in depth-first order, for two positions of scalars.
RECURSIVE Before(_, _)
Before(p, q) ==
  /\ p # <<>> /\ q # <<>>
  /\ \/ Head(p) < Head(q)
     \/ Head(p) = Head(q) /\ Before(Tail(p), Tail(q))

Flagged(obj) == { p \in Paths(obj) : At(obj, p).kind \in {"datetime", "bytes"} }

PositionOf(obj, issue) == CHOOSE p \in Flagged(obj) : PathText(obj, p, <<>>) = issue.path

\* C10 (detector and sanitizer agree): on a Value the detector reports one
\* issue for each datetime and each bytes, in depth-first order, and nothing
\* else; on the sanitizer's result it reports nothing.
C10_DetectorAgreement ==
  IsValue(data) =>
    /\ pc = "detected" =>
         /\ Len(issues) = Cardinality(Flagged(data))
         /\ \A i \in 1..Len(issues) :
              \E p \in Flagged(data) :
                /\ issues[i].path = PathText(data, p, <<>>)
                /\ issues[i].obj = At(data, p)
                /\ issues[i].obj_type = TypeName(At(data, p))
         /\ \A i, j \in 1..Len(issues) :
              i < j => Before(PositionOf(data, issues[i]), PositionOf(data, issues[j]))
    /\ pc = "checked" => issues = <<>>

\* The detector has run on the result of sanitizing a Value that holds a
\* datetime and a bytes below a nested container.
C10_Witness ==
  /\ pc = "checked"
  /\ IsValue(data)
  /\ \E p, q \in Flagged(data) :
       /\ At(data, p).kind = "datetime" /\ At(data, q).kind = "bytes"
       /\ Len(p) = 2

\* ------------------------------------------------------------------ heap
\* The same call on objects with identity.  A container on the heap holds the
\* addresses of its children: a list has elems, a sequence of addresses, and
\* a dict has entries, a sequence of [key, ref].  The loader builds the input
\* graph, the call runs frame by frame, and the caller then mutates
\* containers of the input or of the result in place.
HeapLeaves == { PyInt(3), NaiveInstant }
NewObjects == HeapLeaves \cup { PyDict(<<>>), PyList(<<>>) }

\* The addresses a container refers to, in insertion order.
Refs(obj) ==
  IF obj.kind = "dict" THEN [i \in 1..Len(obj.entries) |-> obj.entries[i].ref]
  ELSE IF obj.kind = "list" THEN obj.elems
  ELSE <<>>

RefSet(obj) == { Refs(obj)[i] : i \in 1..Len(Refs(obj)) }

RECURSIVE ReachSet(_, _)
ReachSet(h, S) ==
  LET T == S \cup UNION { RefSet(h[a]) : a \in S }
  IN  IF T = S THEN S ELSE ReachSet(h, T)

\* The addresses reachable from a, a included.
Reach(h, a) == ReachSet(h, {a})

\* A container reachable from a contains itself, directly or not.
Cyclic(h, a) == \E b \in Reach(h, a) : b \in ReachSet(h, RefSet(h[b]))

\* The number of objects on the longest path from a, for an acyclic graph.
RECURSIVE Depth(_, _)
Depth(h, a) ==
  IF RefSet(h[a]) = {} THEN 1
  ELSE 1 + (CHOOSE d \in { Depth(h, b) : b \in RefSet(h[a]) } :
              \A b \in RefSet(h[a]) : Depth(h, b) <= d)

\* obj with a reference to address a added: list.append(a), d[k] = a.
WithRef(obj, k, a) ==
  IF obj.kind = "list" THEN PyList(Append(obj.elems, a))
  ELSE IF \E i \in 1..Len(obj.entries) : obj.entries[i].key = k THEN
    PyDict([i \in 1..Len(obj.entries) |->
              IF obj.entries[i].key = k THEN [key |-> k, ref |-> a]
              ELSE obj.entries[i]])
  ELSE PyDict(Append(obj.entries, [key |-> k, ref |-> a]))

\* obj without its last child: list.pop(), d.popitem().
WithoutLast(obj) ==
  IF obj.kind = "list" THEN PyList(SubSeq(obj.elems, 1, Len(obj.elems) - 1))
  ELSE PyDict(SubSeq(obj.entries, 1, Len(obj.entries) - 1))

Containers(h) == { a \in 1..Len(h) : h[a].kind \in ContainerKinds }

\* n lists nested in one another, the innermost empty.
NestedLists(n) == [a \in 1..n |-> IF a < n THEN PyList(<<a + 1>>) ELSE PyList(<<>>)]

\* The loader starts from a single object, or from lists nested one deeper
\* than the recursion limit.
HeapInit ==
  /\ heap \in { <<o>> : o \in NewObjects } \cup { NestedLists(RecursionLimit + 1) }
  /\ root = 1
  /\ n_input = 0
  /\ stack = <<>>
  /\ result = 0
  /\ links = 0
  /\ filling = 0
  /\ mutated = 0
  /\ pc = "load"
  /\ data = NotReturned
  /\ sanitized_data = NotReturned
  /\ issues = <<>>

\* The keys the loader gives the entries of a dict, in order.
KeyOrder == << <<"t">>, <<"a">> >>

\* The key of the next entry of a container that can take one more child (a
\* list takes any number, and the key is not used).
CanAdd(obj) == obj.kind = "dict" => Len(obj.entries) < Len(KeyOrder)
NextKey(obj) == IF obj.kind = "dict" THEN KeyOrder[Len(obj.entries) + 1] ELSE <<"a">>

\* The loader adds a new object to a container of the input.  It fills the
\* containers in the order it created them, so that each graph is built in
\* one order only.
LoadNew ==
  /\ pc = "load"
  /\ Len(heap) < MaxObjs
  /\ \E parent \in Containers(heap), o \in NewObjects :
       /\ parent >= filling
       /\ CanAdd(heap[parent])
       /\ heap' = [Append(heap, o) EXCEPT
                     ![parent] = WithRef(@, NextKey(heap[parent]), Len(heap) + 1)]
       /\ filling' = parent
  /\ UNCHANGED <<treeVars, pc, root, n_input, stack, result, links, mutated>>

\* The loader adds to a container a reference to an object that exists: the
\* object is then shared, or the graph has a cycle.
LoadLink ==
  /\ pc = "load"
  /\ links < MaxLinks
  /\ \E parent \in Containers(heap), target \in 1..Len(heap) :
       /\ CanAdd(heap[parent])
       /\ heap' = [heap EXCEPT ![parent] = WithRef(@, NextKey(heap[parent]), target)]
  /\ links' = links + 1
  /\ UNCHANGED <<treeVars, pc, root, n_input, stack, result, mutated, filling>>

\* A faulty choice of child: the frame's own container again.
ChildRefSelf(h, f) == f.obj

\* The child a frame on a container sanitizes next: the i-th value of the
\* dict, the i-th item of the list.
ChildRef(h, f) == Refs(h[f.obj])[f.i]

\* A faulty sanitizer without the dict branch: dicts fall to the else branch
\* and are returned as they are.
RecursedListOnly(obj) == obj.kind = "list"

\* The objects the sanitizer walks into: the dict and the list branch.
Recursed(obj) == obj.kind \in ContainerKinds

\* Entering simulate_swift_sanitize(obj) for the object at a: a datetime,
\* bytes or Path gives a new str, a dict or a list starts a new container of
\* its kind, and anything else is returned as it is.
EnterHeap(h, a) ==
  IF h[a].kind \in NonSafeKinds THEN Append(h, simulate_swift_sanitize(h[a]))
  ELSE IF Recursed(h[a]) THEN
    Append(h, IF h[a].kind = "dict" THEN PyDict(<<>>) ELSE PyList(<<>>))
  ELSE h

EnterFrame(h, a) ==
  [obj |-> a,
   out |-> IF h[a].kind \in NonSafeKinds \/ Recursed(h[a]) THEN Len(h) + 1 ELSE a,
   i |-> 1]

\* The children a frame has to sanitize.
FrameChildren(h, f) == IF Recursed(h[f.obj]) THEN Len(Refs(h[f.obj])) ELSE 0

Top == stack[Len(stack)]

\* sanitized_data = simulate_swift_sanitize(problematic_data): the load is
\* over, and with it the loader's bookkeeping.
Call ==
  /\ pc = "load"
  /\ pc' = "run"
  /\ n_input' = Len(heap)
  /\ heap' = EnterHeap(heap, root)
  /\ stack' = <<EnterFrame(heap, root)>>
  /\ links' = 0
  /\ filling' = 0
  /\ UNCHANGED <<treeVars, root, result, mutated>>

\* The comprehension of the innermost frame calls simulate_swift_sanitize on
\* its next child.
StepCall ==
  /\ pc = "run"
  /\ Top.i <= FrameChildren(heap, Top)
  /\ Len(stack) < RecursionLimit
  /\ heap' = EnterHeap(heap, ChildRef(heap, Top))
  /\ stack' = Append(stack, EnterFrame(heap, ChildRef(heap, Top)))
  /\ UNCHANGED <<treeVars, pc, root, n_input, result, links, filling, mutated>>

\* The call would exceed the recursion limit: RecursionError.
StepOverflow ==
  /\ pc = "run"
  /\ Top.i <= FrameChildren(heap, Top)
  /\ Len(stack) >= RecursionLimit
  /\ pc' = "error"
  /\ UNCHANGED <<treeVars, heap, root, n_input, stack, result, links, filling, mutated>>

\* The innermost frame returns: its caller's comprehension stores the value
\* under the child's key or appends it, and goes on to the next child; the
\* outermost frame's value is the result.
StepReturn ==
  /\ pc = "run"
  /\ Top.i > FrameChildren(heap, Top)
  /\ IF Len(stack) = 1 THEN
       /\ result' = Top.out
       /\ pc' = "done"
       /\ stack' = <<>>
       /\ UNCHANGED heap
     ELSE
       LET caller == stack[Len(stack) - 1]
           src == heap[caller.obj]
           key == IF src.kind = "dict" THEN src.entries[caller.i].key ELSE <<"a">>
       IN  /\ heap' = [heap EXCEPT ![caller.out] = WithRef(@, key, Top.out)]
           /\ stack' = [SubSeq(stack, 1, Len(stack) - 1)
                          EXCEPT ![Len(stack) - 1].i = caller.i + 1]
           /\ UNCHANGED <<result, pc>>
  /\ UNCHANGED <<treeVars, root, n_input, links, filling, mutated>>

\* After the call the caller mutates a container of the input or of the
\* result in place: it removes the last child, or adds a new scalar.
Mutate ==
  /\ pc = "done"
  /\ pc' = "mutated"
  /\ \E a \in (Reach(heap, root) \cup Reach(heap, result)) \cap Containers(heap) :
       /\ \/ /\ Len(Refs(heap[a])) > 0
             /\ heap' = [heap EXCEPT ![a] = WithoutLast(@)]
          \/ \E k \in Keys :
               /\ heap[a].kind = "list" => k = <<"a">>
               /\ heap' = [Append(heap, PyInt(0)) EXCEPT ![a] = WithRef(@, k, Len(heap) + 1)]
       /\ mutated' = a
  /\ UNCHANGED <<treeVars, root, n_input, stack, result, links, filling>>

Run == StepCall \/ StepOverflow \/ StepReturn

HeapNext == LoadNew \/ LoadLink \/ Call \/ StepCall \/ StepOverflow \/ StepReturn \/ Mutate

HeapSpec == HeapInit /\ [][HeapNext]_vars

\* The call alone, up to its return or its error.  Once called, the
\* sanitizer runs on: nothing else runs in the single thread.
CallNext == LoadNew \/ LoadLink \/ Call \/ StepCall \/ StepOverflow \/ StepReturn

CallSpec == HeapInit /\ [][CallNext]_vars /\ WF_vars(Run)

\* The input graph and the result graph as the caller sees them: the objects
\* reachable from the root, and from the result.
InputView == [a \in Reach(heap, root) |-> heap[a]]
OutputView == [a \in Reach(heap, result) |-> heap[a]]

\* C7 (purity): no step of the call changes an object of the input; at the
\* return every dict and list of the result is an object allocated by the
\* call; and a mutation of a container of the result leaves the input as it
\* was, a mutation of a container of the input leaves the result as it was.
C7_Purity ==
  /\ [](pc = "done" =>
         \A a \in Reach(heap, result) :
           heap[a].kind \in ContainerKinds => a > n_input)
  /\ [][ /\ pc = "run" => \A a \in 1..n_input : heap'[a] = heap[a]
         /\ pc' = "mutated" =>
              /\ mutated' \in Reach(heap, result) => InputView' = InputView
              /\ mutated' \in Reach(heap, root) => OutputView' = OutputView
       ]_vars

\* A dict nested in the result has been mutated after a call on an input
\* that holds a datetime.
C7_Witness ==
  /\ pc = "mutated"
  /\ mutated > n_input
  /\ mutated # result
  /\ heap[mutated].kind = "dict"
  /\ \E a \in Reach(heap, root) : heap[a].kind = "datetime"

RECURSIVE TreeOf(_, _)
TreeOf(h, a) ==
  IF h[a].kind = "dict" THEN
    PyDict([i \in 1..Len(h[a].entries) |->
              [key |-> h[a].entries[i].key, val |-> TreeOf(h, h[a].entries[i].ref)]])
  ELSE IF h[a].kind = "list" THEN
    PyList([i \in 1..Len(h[a].elems) |-> TreeOf(h, h[a].elems[i])])
  ELSE h[a]

\* The result of the run on the heap is the tree the sanitizer computes.
HeapRunComputesSanitize ==
  pc = "done" =>
    TreeOf(heap, result) = simulate_swift_sanitize(TreeOf(heap, root))

====
